---- MODULE Spec2Model ----
(***************************************************************************)
(* Model of the class-seat-monitor: the monitoring cycle of SeatMonitor    *)
(* (src/src/monitor.py), the notification_tracking table of Database       *)
(* (src/src/database.py), the retry loop of CourseScraper.scrape_courses   *)
(* (src/src/scraper.py), the call into TelegramNotifier                    *)
(* (src/src/notifier.py), and the scheduler and the shutdown signals of    *)
(* SeatMonitor.start and main.py.                                          *)
(*                                                                         *)
(* sqlite itself is assumed to work: the except-branches of the Database   *)
(* methods (I/O errors of the database file) are not modelled.             *)
(***************************************************************************)
EXTENDS Naturals, Integers, Sequences, FiniteSets, TLC

\* ------------------------------------------------------------------ bounds
\* number of monitoring cycles a behaviour may start
MaxCycles == 3
\* longest text of a "seats remaining" cell given to _parse_class_row
MaxTextLen == 3
\* scrape_courses is called with retry_count = 0 .. MaxRetry
MaxRetry == 4

\* ------------------------------------------------------- program constants
\* the sold-out marker "Hết chỗ" (database.py:436, scraper.py:404)
SoldOut == "Het cho"
\* scrape_courses(self, retry_count: int = 3)
retry_count == 3
\* wait_time = (attempt + 1) * 5
BackoffBase == 5
\* a NULL column value (last_notified_at not supplied to INSERT OR REPLACE)
NULL == 0
\* number of positional arguments monitor.py passes after the method name
\* when it dispatches a seat alert: send_notification_sync(notifier,
\* 'send_seat_alert', course)
SeatAlertArgs == 1
\* number of required parameters of TelegramNotifier.send_seat_alert
\* (course_data, seat_change)
SeatAlertParams == 2
\* variant: the job may run in two instances at a time
max_instances_two == 1 + 1
\* the number of instances of the 'seat_monitor' job the scheduler runs at a
\* time: add_job is called without max_instances, so the job default applies
max_instances == 1

\* ---------------------------------------------------------- input domains
\* class registration codes that the site may list
Classes == {"k1", "k2"}
\* course codes
Courses == {"CS 403", "CS 404"}
\* the course a class belongs to (the course_code of its scraped record)
course_code_of == [k \in Classes |-> IF k = "k1" THEN "CS 403" ELSE "CS 404"]
\* texts of the "seats remaining" column
SeatTexts == {SoldOut, "3", "5"}
\* values of notify_when_seats_gt (config.yaml, add-course --threshold)
Thresholds == {0, 4}
\* the threshold each course is put on the watchlist with: the default 0 for
\* one course, 4 for the other
threshold_of == [c \in Courses |-> IF c = "CS 403" THEN 0 ELSE 4]

VARIABLES
    monitored_courses,      \* table monitored_courses (active course codes)
    notification_tracking,  \* table notification_tracking (set of rows)
    courses_tbl,            \* table courses (class codes that have a row)
    pc,                     \* position of the process
    mode,                   \* entry point: "start" (main.py) or "once" (monitor_once.py)
    now,                    \* datetime.now(), counted in cycles
    monitored,              \* local of the cycle: result of get_monitored_courses()
    attempt,                \* local of scrape_courses: loop index
    sleeps,                 \* the time.sleep() calls of the current scrape_courses call
    fetched,                \* local of the cycle: the scraped records, class_code -> seats text
    remaining,              \* records the for-loop of the cycle has not visited yet
    cur,                    \* the record _process_course is working on
    fetch_failed,           \* history: every attempt of this cycle's scrape failed
    before,                 \* history: class -> kind of its stored row when the current cycle read it
    decision,               \* history: class -> decision taken in the current cycle
    delivery,               \* history: class -> what became of its seat alert in the current cycle
    op_alert,               \* history: send_error_notification was called in the current cycle
    notifyRun,              \* history: class -> NOTIFY decisions since it was last fetched sold out
    dispatchRun,            \* history: class -> seat-alert dispatches since it was last fetched sold out
    crashWin,               \* history: class -> the process crashed after dispatching its alert
    notify_when_seats_gt,   \* column notify_when_seats_gt of monitored_courses, by course code
    scheduler,              \* the BlockingScheduler: "stopped", "running" or "shutdown"
    instances,              \* running instances of the 'seat_monitor' job in the scheduler's executor
    dropped,                \* history: a trigger fired during the running cycle and its run was skipped
    outcome,                \* history: how the last call of the cycle function ended
    last_attempt,           \* history: how the latest _scrape_with_selenium call of this cycle ended
    parsed_row,             \* the record _parse_class_row made of the latest table row
    retrier,                \* one call scrape_courses(retry_count=n), followed attempt by attempt
    entry_runs              \* one cycle run through check_once and through check_and_notify

vars == <<monitored_courses, notification_tracking, courses_tbl, pc, mode, now,
          monitored, attempt, sleeps, fetched, remaining, cur, fetch_failed,
          before, decision, delivery, op_alert, notifyRun, dispatchRun, crashWin,
          notify_when_seats_gt, scheduler, instances, dropped, outcome, last_attempt,
          parsed_row, retrier, entry_runs>>

\* no table row parsed yet
NoRow == [seats_available_text |-> << >>, has_seats |-> FALSE, available_seats |-> 0,
          parsed |-> FALSE]

\* scrape_courses has not been called
NoCall == [state |-> "idle", n |-> 0, attempt |-> 0, calls |-> 0, failures |-> 0,
           sleeps |-> << >>, result |-> "none"]

\* no cycle has been run through the two entry points
NoRuns == [ran |-> FALSE, courses |-> << >>, stored |-> {}, delivered |-> FALSE,
           once |-> [tracking |-> {}, alerts |-> << >>, outcome |-> "none", op_alert |-> FALSE],
           start |-> [tracking |-> {}, alerts |-> << >>, outcome |-> "none", op_alert |-> FALSE]]

\* "no record": cur when _process_course is not running
NoClass == "-"
\* the empty list of scraped records
NoRecords == [k \in {} |-> SoldOut]

\* ------------------------------------------------------------- Database
\* SELECT ... FROM notification_tracking WHERE class_code = ? ; fetchone()
HasRow(tbl, class_code) == \E r \in tbl : r.class_code = class_code

fetchone(tbl, class_code) == CHOOSE r \in tbl : r.class_code = class_code

\* variant: a plain INSERT into a table without the UNIQUE constraint
insert_or_replace_plain_insert(tbl, row) == tbl \cup {row}

\* INSERT OR REPLACE on a table whose class_code column is UNIQUE
insert_or_replace(tbl, row) ==
    {r \in tbl : r.class_code # row.class_code} \cup {row}

\* variant: the answer also depends on which class is asked about
should_send_notification_by_class(tbl, class_code, has_seats) ==
    has_seats /\ (class_code = "k1" \/ ~HasRow(tbl, class_code))

\* variant: the stored row is not consulted, seats alone decide
should_send_notification_stateless(tbl, class_code, has_seats) == has_seats

should_send_notification(tbl, class_code, has_seats) ==
    IF HasRow(tbl, class_code)
    THEN LET result == fetchone(tbl, class_code)
             last_status == result.last_seats_status
             notification_sent == result.notification_sent
         IN  has_seats /\ (notification_sent = 0 \/ last_status = SoldOut)
    ELSE has_seats

\* variant: marking always sets the notification_sent flag
mark_notification_sent_always(tbl, class_code, seats_status, t) ==
    insert_or_replace(tbl,
        [class_code |-> class_code,
         last_notified_at |-> t,
         last_seats_status |-> seats_status,
         notification_sent |-> 1])

mark_notification_sent(tbl, class_code, seats_status, t) ==
    insert_or_replace(tbl,
        [class_code |-> class_code,
         last_notified_at |-> t,
         last_seats_status |-> seats_status,
         notification_sent |-> IF seats_status # SoldOut THEN 1 ELSE 0])

\* variant: the notification_sent flag is computed the wrong way round
update_notification_status_inverted(tbl, class_code, seats_status) ==
    insert_or_replace(tbl,
        [class_code |-> class_code,
         last_notified_at |-> NULL,
         last_seats_status |-> seats_status,
         notification_sent |-> IF seats_status = SoldOut THEN 1 ELSE 0])

update_notification_status(tbl, class_code, seats_status) ==
    insert_or_replace(tbl,
        [class_code |-> class_code,
         last_notified_at |-> NULL,
         last_seats_status |-> seats_status,
         notification_sent |-> IF seats_status = SoldOut THEN 0 ELSE 1])

\* ------------------------------------------------------ scraped records
\* has_seats = seats_available_text != "Hết chỗ"
has_seats_of(seats_available_text) == seats_available_text # SoldOut

\* ''.join(filter(str.isdigit, seats_available_text)): the digits of a text
digits_of(seats_available_text) ==
    CASE seats_available_text = "3" -> <<3>>
      [] seats_available_text = "5" -> <<5>>
      [] OTHER -> << >>

\* int(digits), for a non-empty string of digits
RECURSIVE int_of(_)
int_of(ds) == IF ds = << >> THEN 0
              ELSE 10 * int_of(SubSeq(ds, 1, Len(ds) - 1)) + ds[Len(ds)]

\* available_seats of a scraped record: 0 without seats, the number made of
\* the digits of the text, 1 when int() raises because there is no digit
available_seats_of(seats_available_text) ==
    IF ~has_seats_of(seats_available_text) THEN 0
    ELSE IF digits_of(seats_available_text) = << >> THEN 1
    ELSE int_of(digits_of(seats_available_text))

\* course.get('seats_available_text', 'Hết chỗ')
seats_status_of(records, k) == IF k \in DOMAIN records THEN records[k] ELSE SoldOut

\* variant: the loop visits every known class, fetched or not
records_to_process_all(records) == Classes

\* for course in courses: the records the loop visits
records_to_process(records) == DOMAIN records

\* variant: a failed scrape reports a class as sold out
scrape_exhausted_stale == [k \in {"k1"} |-> SoldOut]

\* what scrape_courses returns when every attempt failed
scrape_exhausted == NoRecords

\* variant: the delay grows with the zero-based loop index
wait_time_zero_based(a) == a * BackoffBase

\* variant: every failed attempt is followed by a sleep
scrape_step_n_always_sleep(ok, a, n) == IF ok THEN "return" ELSE "sleep"

\* the loop body of scrape_courses(retry_count=n) at loop index a
scrape_step_n(ok, a, n) ==
    IF ok THEN "return"
    ELSE IF a < n - 1 THEN "sleep" ELSE "exhausted"

\* variant: a successful attempt does not leave the loop while attempts remain
scrape_step_no_return(ok, a) ==
    IF a < retry_count - 1 THEN "sleep"
    ELSE IF ok THEN "return" ELSE "exhausted"

\* the body of "for attempt in range(retry_count)": a successful
\* _scrape_with_selenium returns its records; a failed one sleeps and goes
\* round again if attempt < retry_count - 1, and otherwise ends the loop
scrape_step(ok, a) == scrape_step_n(ok, a, retry_count)

\* wait_time = (attempt + 1) * 5: the sleep after the failed attempt of loop
\* index a, when attempts remain
wait_time(a) == (a + 1) * BackoffBase

\* variant: every course counts as monitored
monitored_course_any(mon, course_code) == TRUE

\* next(m for m in monitored if m['course_code'] == course_code, None)
monitored_course(mon, course_code) == course_code \in mon

\* ------------------------------------------------------------- notifier
\* send_notification_sync(notifier, 'send_seat_alert', *args): binding args to
\* the parameters of send_seat_alert raises TypeError unless they match;
\* otherwise the coroutine runs and returns whether every chat was reached.
send_notification_sync(nargs, delivered) ==
    IF nargs # SeatAlertParams THEN "TypeError"
    ELSE IF delivered THEN "True" ELSE "False"

\* the kind of tracking state stored for a class: no row, or the row's
\* (last_seats_status, notification_sent) with the status read as FULL when
\* it is the sold-out marker and as HAS_SEATS otherwise
StoredKind(tbl, class_code) ==
    IF ~HasRow(tbl, class_code) THEN "ABSENT"
    ELSE LET r == fetchone(tbl, class_code)
         IN  IF r.last_seats_status = SoldOut
             THEN (IF r.notification_sent = 0 THEN "FULL" ELSE "FULL_SENT")
             ELSE (IF r.notification_sent = 1 THEN "HAS_SEATS_SENT" ELSE "HAS_SEATS_UNSENT")

\* the decision of the cycle for a watched class, in the words of the
\* transition table: NOTIFY when should_send_notification is true
decide(tbl, class_code, has_seats) ==
    IF should_send_notification(tbl, class_code, has_seats) THEN "NOTIFY"
    ELSE IF has_seats THEN "IGNORE" ELSE "UPDATE_ONLY"

\* ------------------------------------------------------- _parse_class_row
\* the characters a "seats remaining" cell is made of here: two letters, two
\* digits, one sign that is neither
Chars == {"H", "c", "0", "3", "/"}
\* the sold-out marker as the text of a cell, shortened to its two initials
SoldOutCell == <<"H", "c">>
\* every text of a cell, get_text(strip=True) applied
CellTexts == UNION {[1..n -> Chars] : n \in 0..MaxTextLen}

\* str.isdigit
isdigit(c) == c \in {"0", "3"}
\* the value int() gives a digit
digit_value(c) == IF c = "3" THEN 3 ELSE 0

\* has_seats = seats_available_text != "Hết chỗ"
cell_has_seats(text) == text # SoldOutCell

\* variant: only the digits the text starts with are read
RECURSIVE cell_digits_leading(_)
cell_digits_leading(text) ==
    IF text = << >> \/ ~isdigit(Head(text)) THEN << >>
    ELSE <<Head(text)>> \o cell_digits_leading(Tail(text))

\* ''.join(filter(str.isdigit, seats_available_text))
cell_digits(text) == SelectSeq(text, isdigit)

\* available_seats: 0 without seats; otherwise int() of the digits of the
\* text, and 1 when int() raises because the text has no digit
cell_available_seats(text) ==
    IF ~cell_has_seats(text) THEN 0
    ELSE LET ds == cell_digits(text)
         IN  IF ds = << >> THEN 1
             ELSE int_of([i \in 1..Len(ds) |-> digit_value(ds[i])])

\* ----------------------------------------------------------------- Init
Init ==
    /\ monitored_courses \in SUBSET Courses
    /\ notification_tracking = {}
    /\ courses_tbl = {}
    /\ pc = "init"
    /\ mode = "start"
    /\ now = 0
    /\ monitored = {}
    /\ attempt = 0
    /\ sleeps = << >>
    /\ fetched = NoRecords
    /\ remaining = {}
    /\ cur = NoClass
    /\ fetch_failed = FALSE
    /\ before = [k \in Classes |-> "NONE"]
    /\ decision = [k \in Classes |-> "NONE"]
    /\ delivery = [k \in Classes |-> "none"]
    /\ op_alert = FALSE
    /\ notifyRun = [k \in Classes |-> 0]
    /\ dispatchRun = [k \in Classes |-> 0]
    /\ crashWin = [k \in Classes |-> FALSE]
    /\ notify_when_seats_gt =
          [c \in Courses |-> IF c \in monitored_courses THEN threshold_of[c] ELSE 0]
    /\ scheduler = "stopped"
    /\ instances = 0
    /\ dropped = FALSE
    /\ outcome = "none"
    /\ last_attempt = "none"
    /\ parsed_row = NoRow
    /\ retrier = NoCall
    /\ entry_runs = NoRuns

history == <<fetch_failed, before, decision, delivery, op_alert, notifyRun, dispatchRun, crashWin,
             last_attempt>>
tables == <<monitored_courses, notification_tracking, courses_tbl, notify_when_seats_gt>>
locals == <<monitored, attempt, sleeps, fetched, remaining, cur>>
\* the state of the function-level studies, which the monitoring cycle leaves alone
pure_vars == <<parsed_row, retrier, entry_runs>>

\* where the process goes when a cycle returns: the scheduler of start()
\* waits for the next trigger, monitor_once.py exits
CycleReturn(m) == IF m = "start" THEN "idle" ELSE "down"

\* variant: the cycle scrapes whatever the watchlist holds
after_watchlist_always_scrape(mon, m) == "scrape"

\* "if not monitored: ... return": with an empty watchlist the cycle function
\* returns at once, otherwise it goes on to scraper.scrape_courses()
after_watchlist(mon, m) == IF mon = {} THEN CycleReturn(m) ELSE "scrape"

\* the positions inside the cycle function
CyclePcs == {"scrape", "scraped", "report_empty", "loop", "decide", "send", "mark",
             "update", "except"}

\* the executor's count of running job instances once an instance has ended
\* (the startup cycle of start() is a plain call and was never counted)
JobDone(n) == IF n > 0 THEN n - 1 ELSE 0

\* the first lines of check_and_notify / check_once: read the watchlist,
\* return at once when it is empty, otherwise call scrape_courses
BeginCycle(m) ==
    /\ UNCHANGED pure_vars
    /\ now < MaxCycles
    /\ now' = now + 1
    /\ mode' = m
    /\ monitored' = monitored_courses
    /\ attempt' = 0
    /\ sleeps' = << >>
    /\ fetched' = NoRecords
    /\ remaining' = {}
    /\ cur' = NoClass
    /\ fetch_failed' = FALSE
    /\ before' = [k \in Classes |-> "NONE"]
    /\ decision' = [k \in Classes |-> "NONE"]
    /\ delivery' = [k \in Classes |-> "none"]
    /\ op_alert' = FALSE
    /\ pc' = after_watchlist(monitored_courses, m)
    /\ dropped' = FALSE
    /\ outcome' = IF monitored_courses = {} THEN "returned" ELSE "running"
    /\ last_attempt' = "none"
    /\ UNCHANGED <<tables, notifyRun, dispatchRun, crashWin, scheduler>>

\* SeatMonitor.start: "Run immediately on start", a plain call in the main
\* thread before the job is added and the scheduler started
start == pc = "init" /\ BeginCycle("start") /\ UNCHANGED instances

\* SeatMonitor.start after the startup cycle: scheduler.add_job(...,
\* IntervalTrigger), is_running = True, scheduler.start()
scheduler_start ==
    /\ UNCHANGED pure_vars
    /\ pc = "idle" /\ mode = "start" /\ scheduler = "stopped"
    /\ scheduler' = "running"
    /\ UNCHANGED <<tables, pc, mode, now, locals, history, instances, dropped, outcome>>

\* the IntervalTrigger of the 'seat_monitor' job fires while fewer than
\* max_instances instances of the job run: the executor runs check_and_notify
scheduled_check_and_notify ==
    /\ scheduler = "running" /\ mode = "start"
    /\ instances < max_instances
    /\ BeginCycle("start")
    /\ instances' = IF monitored_courses = {} THEN instances ELSE instances + 1

\* the IntervalTrigger fires while max_instances instances of the job still
\* run: the scheduler skips this run and waits for the next fire time
trigger_skipped ==
    /\ UNCHANGED pure_vars
    /\ scheduler = "running" /\ mode = "start"
    /\ ~(instances < max_instances)
    /\ dropped' = TRUE
    /\ UNCHANGED <<tables, pc, mode, now, locals, history, scheduler, instances, outcome>>

\* monitor_once.py: monitor.check_once()
check_once == pc = "init" /\ BeginCycle("once") /\ UNCHANGED instances

\* every list of records a successful scrape can return (possibly empty)
RecordSets == UNION {[D -> SeatTexts] : D \in SUBSET Classes}

\* a history counter, saturating at 2
Bump(n) == IF n < 2 THEN n + 1 ELSE 2

\* the classes a list of records shows as sold out
FetchedFull(records) == {k \in DOMAIN records : ~has_seats_of(records[k])}

\* one iteration of "for attempt in range(retry_count)" in scrape_courses:
\* _scrape_with_selenium either returns records or raises
scrape_courses ==
    /\ UNCHANGED pure_vars
    /\ pc = "scrape"
    /\ attempt < retry_count
    /\ \/ /\ scrape_step(TRUE, attempt) = "return"
          /\ \E r \in RecordSets :
                /\ fetched' = r
                /\ notifyRun' = [k \in Classes |-> IF k \in FetchedFull(r) THEN 0 ELSE notifyRun[k]]
                /\ dispatchRun' = [k \in Classes |-> IF k \in FetchedFull(r) THEN 0 ELSE dispatchRun[k]]
                /\ crashWin' = [k \in Classes |-> IF k \in FetchedFull(r) THEN FALSE ELSE crashWin[k]]
          /\ pc' = "scraped"
          /\ last_attempt' = "ok"
          /\ UNCHANGED <<attempt, sleeps, fetch_failed>>
       \/ /\ \E ok \in BOOLEAN :
                /\ scrape_step(ok, attempt) = "sleep"
                /\ last_attempt' = IF ok THEN "ok" ELSE "failed"
          /\ sleeps' = Append(sleeps, wait_time(attempt))
          /\ attempt' = attempt + 1
          /\ UNCHANGED <<pc, fetched, fetch_failed, notifyRun, dispatchRun, crashWin>>
       \/ /\ scrape_step(FALSE, attempt) = "exhausted"
          /\ attempt' = attempt + 1
          /\ fetched' = scrape_exhausted
          /\ fetch_failed' = TRUE
          /\ pc' = "scraped"
          /\ last_attempt' = "failed"
          /\ UNCHANGED <<sleeps, notifyRun, dispatchRun, crashWin>>
    /\ UNCHANGED <<tables, mode, now, monitored, remaining, cur, before, decision, delivery, op_alert,
                   scheduler, instances, dropped, outcome>>

\* "if not courses:" after scrape_courses returned; check_and_notify goes on
\* to send an error notification, check_once only logs and returns
check_courses ==
    /\ UNCHANGED pure_vars
    /\ pc = "scraped"
    /\ IF fetched = NoRecords
       THEN /\ pc' = IF mode = "start" THEN "report_empty" ELSE CycleReturn(mode)
            /\ outcome' = IF mode = "start" THEN outcome ELSE "returned"
            /\ UNCHANGED remaining
       ELSE /\ pc' = "loop"
            /\ remaining' = records_to_process(fetched)
            /\ UNCHANGED outcome
    /\ UNCHANGED <<tables, mode, now, monitored, attempt, sleeps, fetched, cur, history,
                   scheduler, instances, dropped>>

\* "for course in courses:" takes the next record and enters _process_course,
\* whose first statement is db.save_course_data(course)
next_course ==
    /\ UNCHANGED pure_vars
    /\ pc = "loop"
    /\ \E k \in remaining :
          /\ cur' = k
          /\ remaining' = remaining \ {k}
          /\ courses_tbl' = courses_tbl \cup {k}
    /\ pc' = "decide"
    /\ UNCHANGED <<monitored_courses, notification_tracking, notify_when_seats_gt, mode, now,
                   monitored, attempt, sleeps, fetched, history, scheduler, instances, dropped,
                   outcome>>

\* the for-loop is exhausted: the cycle returns
cycle_complete ==
    /\ UNCHANGED pure_vars
    /\ pc = "loop"
    /\ remaining = {}
    /\ pc' = CycleReturn(mode)
    /\ outcome' = "returned"
    /\ instances' = JobDone(instances)
    /\ dropped' = FALSE
    /\ UNCHANGED <<tables, mode, now, locals, history, scheduler>>

\* _process_course, from reading the record to should_send_notification;
\* a record of a course that is not monitored gets update_notification_status
\* and the function returns
process_course ==
    /\ UNCHANGED pure_vars
    /\ pc = "decide"
    /\ before' = [before EXCEPT ![cur] = StoredKind(notification_tracking, cur)]
    /\ LET course_code == course_code_of[cur]
           seats_status == seats_status_of(fetched, cur)
           has_seats == has_seats_of(seats_status)
           d == decide(notification_tracking, cur, has_seats)
       IN  IF ~monitored_course(monitored, course_code)
           THEN /\ notification_tracking' =
                      update_notification_status(notification_tracking, cur, seats_status)
                /\ pc' = "loop"
                /\ cur' = NoClass
                /\ UNCHANGED <<decision, notifyRun>>
           ELSE /\ decision' = [decision EXCEPT ![cur] = d]
                /\ notifyRun' = IF d = "NOTIFY"
                                THEN [notifyRun EXCEPT ![cur] = Bump(@)]
                                ELSE notifyRun
                /\ pc' = IF d = "NOTIFY" THEN "send" ELSE "update"
                /\ UNCHANGED <<notification_tracking, cur>>
    /\ UNCHANGED <<monitored_courses, courses_tbl, notify_when_seats_gt, mode, now, monitored,
                   attempt, sleeps, fetched, remaining, fetch_failed, delivery, op_alert,
                   dispatchRun, crashWin, last_attempt, scheduler, instances, dropped, outcome>>

\* success = send_notification_sync(self.notifier, 'send_seat_alert', course)
\* a TypeError leaves _process_course: check_and_notify catches it,
\* check_once lets it reach main() of monitor_once.py
send_seat_alert ==
    /\ UNCHANGED pure_vars
    /\ pc = "send"
    /\ \E delivered \in BOOLEAN :
          LET success == send_notification_sync(SeatAlertArgs, delivered)
          IN  /\ delivery' = [delivery EXCEPT ![cur] =
                                 CASE success = "TypeError" -> "raised"
                                   [] success = "True" -> "ok"
                                   [] OTHER -> "failed"]
              /\ pc' = CASE success = "TypeError" ->
                                IF mode = "start" THEN "except" ELSE "fatal"
                         [] success = "True" -> "mark"
                         [] OTHER -> "loop"
              /\ cur' = IF success = "False" THEN NoClass ELSE cur
              /\ outcome' = IF success = "TypeError" /\ mode # "start"
                             THEN "raised" ELSE outcome
    /\ dispatchRun' = [dispatchRun EXCEPT ![cur] = Bump(@)]
    /\ UNCHANGED <<tables, mode, now, monitored, attempt, sleeps, fetched, remaining,
                   fetch_failed, before, decision, op_alert, notifyRun, crashWin,
                   last_attempt, scheduler, instances, dropped>>

\* the write that ends _process_course: mark_notification_sent after a
\* successful alert, update_notification_status when no alert was due
write_tracking ==
    /\ UNCHANGED pure_vars
    /\ pc \in {"mark", "update"}
    /\ LET seats_status == seats_status_of(fetched, cur)
       IN  notification_tracking' =
              IF pc = "mark"
              THEN mark_notification_sent(notification_tracking, cur, seats_status, now)
              ELSE update_notification_status(notification_tracking, cur, seats_status)
    /\ pc' = "loop"
    /\ cur' = NoClass
    /\ UNCHANGED <<monitored_courses, courses_tbl, notify_when_seats_gt, mode, now, monitored,
                   attempt, sleeps, fetched, remaining, history, scheduler, instances, dropped,
                   outcome>>

\* send_notification_sync(notifier, 'send_error_notification', ...): after an
\* empty scrape and in the except-branch of check_and_notify, and in the
\* except-branch of main() of monitor_once.py, which then returns 1
send_error_notification ==
    /\ UNCHANGED pure_vars
    /\ pc \in {"report_empty", "except", "fatal"}
    /\ op_alert' = TRUE
    /\ pc' = IF pc = "fatal" THEN "down" ELSE CycleReturn(mode)
    /\ cur' = NoClass
    /\ outcome' = IF pc = "fatal" THEN outcome ELSE "returned"
    /\ instances' = IF pc = "fatal" THEN instances ELSE JobDone(instances)
    /\ dropped' = FALSE
    /\ UNCHANGED <<tables, mode, now, monitored, attempt, sleeps, fetched, remaining,
                   fetch_failed, before, decision, delivery, notifyRun, dispatchRun, crashWin,
                   last_attempt, scheduler>>

\* the process dies (kill, power loss): its locals are lost, the database
\* file keeps what was committed
Crash ==
    /\ UNCHANGED pure_vars
    /\ pc # "down"
    /\ pc' = "down"
    /\ crashWin' = IF cur # NoClass /\ pc \in {"mark", "except", "fatal"}
                      /\ dispatchRun[cur] = 1
                   THEN [crashWin EXCEPT ![cur] = TRUE]
                   ELSE crashWin
    /\ before' = [k \in Classes |-> "NONE"]
    /\ decision' = [k \in Classes |-> "NONE"]
    /\ delivery' = [k \in Classes |-> "none"]
    /\ monitored' = {}
    /\ attempt' = 0
    /\ sleeps' = << >>
    /\ fetched' = NoRecords
    /\ remaining' = {}
    /\ cur' = NoClass
    /\ scheduler' = "stopped"
    /\ instances' = 0
    /\ dropped' = FALSE
    /\ outcome' = "none"
    /\ UNCHANGED <<tables, mode, now, fetch_failed, op_alert, notifyRun, dispatchRun,
                   last_attempt>>

\* main.py signal_handler (SIGINT, SIGTERM; registered by cmd_start only):
\* sys.exit(0) raises SystemExit in the main thread.  While the main thread
\* is inside start() before scheduler.start(), nothing catches it ("except
\* Exception" of check_and_notify does not): the process exits where it
\* stands.  While the main thread is inside scheduler.start(), start() catches
\* it and calls stop(): scheduler.shutdown() waits for the running job.
signal_handler ==
    /\ UNCHANGED pure_vars
    /\ mode = "start"
    /\ pc \in CyclePcs \cup {"idle"}
    /\ \/ /\ scheduler = "stopped"
          /\ pc' = "down"
          /\ outcome' = IF pc \in CyclePcs THEN "interrupted" ELSE "none"
          /\ before' = [k \in Classes |-> "NONE"]
          /\ decision' = [k \in Classes |-> "NONE"]
          /\ delivery' = [k \in Classes |-> "none"]
          /\ monitored' = {}
          /\ attempt' = 0
          /\ sleeps' = << >>
          /\ fetched' = NoRecords
          /\ remaining' = {}
          /\ cur' = NoClass
          /\ UNCHANGED <<scheduler, fetch_failed, op_alert, notifyRun, dispatchRun, crashWin,
                         last_attempt>>
       \/ /\ scheduler = "running"
          /\ scheduler' = "shutdown"
          /\ UNCHANGED <<pc, outcome, locals, history>>
    /\ UNCHANGED <<tables, mode, now, instances, dropped>>

\* SeatMonitor.stop once scheduler.shutdown() has returned: is_running = False,
\* start() returns and the process ends
stop ==
    /\ UNCHANGED pure_vars
    /\ scheduler = "shutdown"
    /\ instances = 0
    /\ pc = "idle"
    /\ pc' = "down"
    /\ scheduler' = "stopped"
    /\ UNCHANGED <<tables, mode, now, locals, history, instances, dropped, outcome>>

\* the process is started again: SeatMonitor.__init__ on the same database
Restart ==
    /\ UNCHANGED pure_vars
    /\ pc = "down"
    /\ pc' = "init"
    /\ UNCHANGED <<tables, mode, now, locals, history, scheduler, instances, dropped, outcome>>

\* python main.py add-course <course_code>: db.add_monitored_course
add_course ==
    /\ UNCHANGED pure_vars
    /\ \E course_code \in Courses \ monitored_courses :
          /\ monitored_courses' = monitored_courses \cup {course_code}
          /\ notify_when_seats_gt' =
                [notify_when_seats_gt EXCEPT ![course_code] = threshold_of[course_code]]
    /\ UNCHANGED <<notification_tracking, courses_tbl, pc, mode, now, locals, history,
                   scheduler, instances, dropped, outcome>>

Next ==
    \/ start
    \/ scheduler_start
    \/ scheduled_check_and_notify
    \/ trigger_skipped
    \/ check_once
    \/ scrape_courses
    \/ check_courses
    \/ next_course
    \/ cycle_complete
    \/ process_course
    \/ send_seat_alert
    \/ write_tracking
    \/ send_error_notification
    \/ Crash
    \/ signal_handler
    \/ stop
    \/ Restart
    \/ add_course

Spec == Init /\ [][Next]_vars

\* the state of the monitoring cycle
cycle_vars == <<tables, pc, mode, now, locals, history, scheduler, instances, dropped, outcome>>

\* _parse_class_row on a table row whose "seats remaining" cell holds any text
parse_class_row ==
    /\ \E text \in CellTexts :
          parsed_row' = [seats_available_text |-> text,
                         has_seats |-> cell_has_seats(text),
                         available_seats |-> cell_available_seats(text),
                         parsed |-> TRUE]
    /\ UNCHANGED <<cycle_vars, retrier, entry_runs>>

\* the parser alone, fed every cell text
SpecParse == Init /\ [][parse_class_row]_vars

\* ------------------------------------------------ the two entry points
\* the lists scrape_courses can return: records <<class_code, seats text>> of
\* distinct classes, in the order of the page
CourseLists ==
    {<< >>} \cup {<<<<k, x>>>> : k \in Classes, x \in SeatTexts}
            \cup {<<<<p[1], x>>, <<p[2], y>>>> :
                     p \in {q \in Classes \X Classes : q[1] # q[2]},
                     x \in SeatTexts, y \in SeatTexts}

\* the tracking tables earlier cycles can have left: rows written by
\* update_notification_status for some of the classes
RECURSIVE table_of(_, _)
table_of(records, ks) ==
    IF ks = {} THEN {}
    ELSE LET k == CHOOSE x \in ks : TRUE
         IN  update_notification_status(table_of(records, ks \ {k}), k, records[k])
StoredTables == {table_of(r, DOMAIN r) : r \in RecordSets}

\* variant: the handler of check_and_notify sits inside the loop, which goes on
after_raise_resume(m, rest) == IF m = "start" THEN rest ELSE << >>

\* the records the for-loop still visits after _process_course raised: none,
\* check_once has no handler and check_and_notify wraps the whole loop
after_raise(m, rest) == << >>

\* "for course in courses: self._process_course(course_dict, monitored)" as
\* a function of the entry point, the watchlist, the tracking table and the
\* list: the table left behind, the seat alerts dispatched with what became
\* of each, and the exception that left the loop
RECURSIVE process_courses(_, _, _, _, _, _)
process_courses(m, mon, tbl, courses, t, delivered) ==
    IF courses = << >> THEN [tracking |-> tbl, alerts |-> << >>, error |-> "none"]
    ELSE LET class_code == Head(courses)[1]
             seats_status == Head(courses)[2]
             has_seats == has_seats_of(seats_status)
             updated == update_notification_status(tbl, class_code, seats_status)
             success == send_notification_sync(SeatAlertArgs, delivered)
         IN  IF ~monitored_course(mon, course_code_of[class_code])
             THEN process_courses(m, mon, updated, Tail(courses), t, delivered)
             ELSE IF decide(tbl, class_code, has_seats) # "NOTIFY"
             THEN process_courses(m, mon, updated, Tail(courses), t, delivered)
             ELSE LET after ==
                        CASE success = "TypeError" -> tbl
                          [] success = "True" ->
                                mark_notification_sent(tbl, class_code, seats_status, t)
                          [] OTHER -> tbl
                      rest == process_courses(m, mon, after,
                                  IF success = "TypeError"
                                  THEN after_raise(m, Tail(courses)) ELSE Tail(courses),
                                  t, delivered)
                  IN  [tracking |-> rest.tracking,
                       alerts |-> <<<<class_code, success>>>> \o rest.alerts,
                       error |-> IF success = "TypeError" THEN success ELSE rest.error]

\* a cycle that returned before the loop
ReturnedEarly(tbl, reported) ==
    [tracking |-> tbl, alerts |-> << >>, outcome |-> "returned", op_alert |-> reported]

\* check_once as called by main() of monitor_once.py: an empty scrape is
\* logged; an exception reaches main(), which reports it and returns 1
check_once_run(mon, tbl, courses, t, delivered) ==
    IF mon = {} THEN ReturnedEarly(tbl, FALSE)
    ELSE IF courses = << >> THEN ReturnedEarly(tbl, FALSE)
    ELSE LET r == process_courses("once", mon, tbl, courses, t, delivered)
         IN  [tracking |-> r.tracking, alerts |-> r.alerts,
              outcome |-> IF r.error = "none" THEN "returned" ELSE "raised",
              op_alert |-> r.error # "none"]

\* check_and_notify: an empty scrape is reported with an error notification;
\* an exception is caught, reported, and the function returns
check_and_notify_run(mon, tbl, courses, t, delivered) ==
    IF mon = {} THEN ReturnedEarly(tbl, FALSE)
    ELSE IF courses = << >> THEN ReturnedEarly(tbl, TRUE)
    ELSE LET r == process_courses("start", mon, tbl, courses, t, delivered)
         IN  [tracking |-> r.tracking, alerts |-> r.alerts,
              outcome |-> "returned",
              op_alert |-> r.error # "none"]

\* everything but entry_runs
entry_frame == <<cycle_vars, parsed_row, retrier>>

\* one cycle through each entry point, from the same watchlist, the same
\* stored tracking table and the same scrape result
run_both ==
    /\ ~entry_runs.ran
    /\ \E tbl \in StoredTables, courses \in CourseLists, delivered \in BOOLEAN :
          entry_runs' =
             [ran |-> TRUE, courses |-> courses, stored |-> tbl, delivered |-> delivered,
              once |-> check_once_run(monitored_courses, tbl, courses, 1, delivered),
              start |-> check_and_notify_run(monitored_courses, tbl, courses, 1, delivered)]
    /\ UNCHANGED entry_frame

\* the two entry points side by side
SpecEntry == Init /\ [][run_both]_vars

\* ------------------------------------------------ scrape_courses alone
\* everything but retrier
retry_frame == <<cycle_vars, parsed_row, entry_runs>>

\* a caller enters scrape_courses(retry_count=n); n = 3 is the default
retry_call ==
    /\ retrier.state \in {"idle", "returned"}
    /\ \E n \in 0..MaxRetry :
          retrier' = [state |-> "loop", n |-> n, attempt |-> 0, calls |-> 0, failures |-> 0,
                      sleeps |-> << >>, result |-> "none"]
    /\ UNCHANGED retry_frame

\* one pass of "for attempt in range(retry_count)": _scrape_with_selenium
\* returns a list, which may be empty, or raises
retry_attempt ==
    /\ retrier.state = "loop"
    /\ retrier.attempt < retrier.n
    /\ \E ok \in BOOLEAN, courses \in {"courses", "empty"} :
          LET step == scrape_step_n(ok, retrier.attempt, retrier.n)
              called == [retrier EXCEPT !.calls = @ + 1,
                                        !.failures = IF ok THEN @ ELSE @ + 1]
          IN  retrier' =
                CASE step = "return" ->
                        [called EXCEPT !.state = "returned", !.result = courses]
                  [] step = "sleep" ->
                        [called EXCEPT !.sleeps = Append(@, wait_time(retrier.attempt)),
                                       !.attempt = @ + 1]
                  [] OTHER ->
                        [called EXCEPT !.attempt = @ + 1]
    /\ UNCHANGED retry_frame

\* range(retry_count) is exhausted: "return []"
retry_exit ==
    /\ retrier.state = "loop"
    /\ retrier.attempt >= retrier.n
    /\ retrier' = [retrier EXCEPT !.state = "returned", !.result = "empty"]
    /\ UNCHANGED retry_frame

RetryNext == retry_call \/ retry_attempt \/ retry_exit

\* scrape_courses alone: a running call goes on, statement after statement,
\* until it returns
SpecRetry ==
    Init /\ [][RetryNext]_vars /\ WF_vars(retry_attempt) /\ WF_vars(retry_exit)

\* ------------------------------------------------ the tracking store alone
\* everything but the notification_tracking table
store_frame == <<monitored_courses, courses_tbl, notify_when_seats_gt, pc, mode, now, locals,
                 history, scheduler, instances, dropped, outcome, pure_vars>>

\* Database.mark_notification_sent(class_code, seats_status), called with any
\* class and any status text; datetime.now() reads any time after the start
db_mark_notification_sent ==
    /\ \E class_code \in Classes, seats_status \in SeatTexts, t \in 1..MaxCycles :
          notification_tracking' =
              mark_notification_sent(notification_tracking, class_code, seats_status, t)
    /\ UNCHANGED store_frame

\* Database.update_notification_status(class_code, seats_status), called with
\* any class and any status text
db_update_notification_status ==
    /\ \E class_code \in Classes, seats_status \in SeatTexts :
          notification_tracking' =
              update_notification_status(notification_tracking, class_code, seats_status)
    /\ UNCHANGED store_frame

StoreNext == db_mark_notification_sent \/ db_update_notification_status

\* the two writers of notification_tracking, called in any order
SpecStore == Init /\ [][StoreNext]_vars

\* ------------------------------------------------------------ type check
TypeOK ==
    /\ monitored_courses \subseteq Courses
    /\ \A r \in notification_tracking :
          /\ r.class_code \in Classes
          /\ r.last_seats_status \in SeatTexts
          /\ r.notification_sent \in {0, 1}
          /\ r.last_notified_at \in 0..MaxCycles
    /\ pc \in {"init", "idle", "down", "scrape", "scraped", "report_empty", "loop",
               "decide", "send", "mark", "update", "except", "fatal"}
    /\ cur \in Classes \cup {NoClass}
    /\ notify_when_seats_gt \in [Courses -> Thresholds]
    /\ scheduler \in {"stopped", "running", "shutdown"}
    /\ instances \in 0..max_instances
    /\ dropped \in BOOLEAN
    /\ outcome \in {"none", "running", "returned", "raised", "interrupted"}
    /\ last_attempt \in {"none", "ok", "failed"}

\* ------------------------------------------------------------------------
\* Properties
\* ------------------------------------------------------------------------
\* the stored tracking state of class k is {HAS_SEATS, notification_sent=true}
StoredHasSeatsSent(k) == StoredKind(notification_tracking, k) = "HAS_SEATS_SENT"
\* the stored tracking state of class k is {FULL, notification_sent=false}
StoredFullUnsent(k) == StoredKind(notification_tracking, k) = "FULL"
\* the current cycle fetched class k with seats / sold out
ObservedSeats(k) == k \in DOMAIN fetched /\ has_seats_of(fetched[k])
ObservedFull(k) == k \in DOMAIN fetched /\ ~has_seats_of(fetched[k])
\* the NotificationTrackingState of class k: (last_status, notification_sent,
\* last_notified_at), last_status read as FULL / HAS_SEATS
TrackingState(k) ==
    IF ~HasRow(notification_tracking, k) THEN <<"UNKNOWN", 0, NULL>>
    ELSE LET r == fetchone(notification_tracking, k)
         IN  <<IF r.last_seats_status = SoldOut THEN "FULL" ELSE "HAS_SEATS",
               r.notification_sent, r.last_notified_at>>

\* C1: for every class, no second NOTIFY decision is taken unless the class
\* was seen sold out since the previous one (at most one NOTIFY per window).
C1_AtMostOneNotifyPerWindow == \A k \in Classes : notifyRun[k] <= 1

\* C2: when the seat alert of a class is dispatched, the store already holds
\* {HAS_SEATS, notification_sent=true} for that class.
C2_PersistBeforeSend == pc = "send" => StoredHasSeatsSent(cur)

\* C3: a class whose alert was dispatched when the process crashed, before
\* its tracking state was persisted, gets no second dispatch in the same
\* availability window after the restart.
C3_NoDuplicateAfterCrash == \A k \in Classes : crashWin[k] => dispatchRun[k] <= 1

\* C4: when the cycle has ended and the seat alert of a class was not
\* delivered in it, the stored state of the class is {HAS_SEATS, true}.
C4_FailedDeliveryKeepsState ==
    \A k \in Classes :
        (pc = "idle" /\ delivery[k] \in {"raised", "failed"}) => StoredHasSeatsSent(k)

\* C5: a watched class read as absent or FULL and observed with seats is
\* decided NOTIFY, and once it has been processed its stored state is
\* {HAS_SEATS, true}.
C5_NotifyTransition ==
    \A k \in Classes :
        (decision[k] # "NONE" /\ before[k] \in {"ABSENT", "FULL"} /\ ObservedSeats(k))
            => /\ decision[k] = "NOTIFY"
               /\ cur # k => StoredHasSeatsSent(k)

\* C6: once a class decided NOTIFY has been processed, send_seat_alert of
\* the notifier has run for it in this cycle.
C6_NotifyReachesNotifier ==
    \A k \in Classes :
        (decision[k] = "NOTIFY" /\ cur # k) => delivery[k] \in {"ok", "failed"}

\* C7: processing a class stored as {HAS_SEATS, true} and observed with seats
\* dispatches no alert, decides IGNORE when the class is watched, and leaves
\* (last_status, notification_sent, last_notified_at) as they were.
C7_ReobservationIdempotent ==
    [][\A k \in Classes :
          (cur = k /\ pc \in {"decide", "update"} /\ StoredHasSeatsSent(k) /\ ObservedSeats(k))
              => /\ TrackingState(k)' = TrackingState(k)
                 /\ pc' \notin {"send", "mark", "except", "fatal"}
                 /\ (pc' = "update" => decision'[k] = "IGNORE")]_vars

\* C7 witness: a watched class read as {HAS_SEATS, true} was observed with
\* seats, decided IGNORE and written back
C7_Witness ==
    \E k \in Classes :
        /\ before[k] = "HAS_SEATS_SENT" /\ decision[k] = "IGNORE"
        /\ ObservedSeats(k) /\ cur # k /\ pc = "loop"

\* C8: processing a class observed sold out, whatever is stored for it,
\* dispatches no alert, decides UPDATE_ONLY when the class is watched, and
\* leaves the stored state {FULL, notification_sent=false}.
C8_FullObservation ==
    [][\A k \in Classes :
          (cur = k /\ pc \in {"decide", "update"} /\ ObservedFull(k) /\ pc' # "down")
              => /\ pc' \notin {"send", "mark", "except", "fatal"}
                 /\ (pc' = "update" => decision'[k] = "UPDATE_ONLY")
                 /\ (pc' = "loop" => StoredFullUnsent(k)')]_vars

\* C8 witness: a watched class read as {HAS_SEATS, true} was observed sold
\* out and processed
C8_Witness ==
    \E k \in Classes :
        /\ before[k] = "HAS_SEATS_SENT" /\ decision[k] = "UPDATE_ONLY"
        /\ ObservedFull(k) /\ cur # k /\ pc = "loop" /\ StoredFullUnsent(k)

\* the rows stored for class k
RowsOf(k) == {r \in notification_tracking : r.class_code = k}

\* C9: no step taken while the cycle's fetch result lacks a class changes
\* what is stored for that class.
C9_AbsentClassUntouched ==
    [][\A k \in Classes : k \notin DOMAIN fetched => RowsOf(k)' = RowsOf(k)]_vars

\* C9 witness: a cycle has processed all it fetched, and a class with a
\* stored row, of a watched course, was not among it
C9_Witness ==
    \E k \in Classes :
        /\ HasRow(notification_tracking, k) /\ k \notin DOMAIN fetched
        /\ course_code_of[k] \in monitored
        /\ fetched # NoRecords /\ pc = "loop" /\ remaining = {}

\* C10: from the start of a cycle through its scrape attempts, and after all
\* the attempts failed, nothing is written to the tracking table and no
\* class is processed or alerted.
C10_FailedFetchTouchesNothing ==
    [][(pc' = "scrape" \/ pc = "scrape" \/ fetch_failed)
          => /\ notification_tracking' = notification_tracking
             /\ pc' \notin {"send", "mark", "update", "decide"}]_vars

\* C10 witness: a cycle ended after three failed attempts while tracking
\* rows exist
C10_Witness ==
    /\ fetch_failed /\ attempt = retry_count /\ pc = "idle"
    /\ notification_tracking # {}

\* the cycle function has ended, by returning or by raising
CycleEnded == outcome \in {"returned", "raised"}
\* the cycle function has ended and no class was read by it
ZeroClassesChecked == \A k \in Classes : before[k] = "NONE"

\* C11: a cycle whose every scrape attempt failed ends by returning, with no
\* class checked and with an error notification sent, whichever entry point
\* (check_and_notify, check_once) ran it.
C11_FailedFetchAlerts ==
    (fetch_failed /\ CycleEnded)
        => (outcome = "returned" /\ ZeroClassesChecked /\ op_alert)

\* C12: an error notification of a cycle that returned without an exception
\* was sent because every scrape attempt failed; a scrape that succeeded
\* with no records sends none.
C12_AlertOnlyWhenUnavailable ==
    (outcome = "returned" /\ op_alert /\ \A k \in Classes : delivery[k] # "raised")
        => fetch_failed

\* the sleeps d, 2d, ..., n*d
LinearDelays(n) == [i \in 1..n |-> BackoffBase * i]

\* C13 as stated: after retry_count failed attempts the sleeps of the call
\* were d, 2d, 3d.
C13_ThreeDelays ==
    (fetch_failed /\ attempt = retry_count) => sleeps = LinearDelays(retry_count)

\* C13: the k-th sleep of a scrape_courses call lasts k * d, and after
\* retry_count failed attempts the sleeps of the call were d, 2d: none
\* follows the last attempt.
C13_BackoffSchedule ==
    /\ sleeps = LinearDelays(Len(sleeps))
    /\ (fetch_failed /\ attempt = retry_count) => sleeps = LinearDelays(retry_count - 1)

\* C13 witness: scrape_courses has just returned after three failed attempts
C13_Witness == fetch_failed /\ attempt = retry_count /\ pc = "scraped" /\ Len(sleeps) = 2

\* C14: scrape_courses makes no attempt after a successful one, a sleep is
\* made only after a failed attempt with attempts remaining, and the records
\* the cycle holds after a success came with as many sleeps as attempts
\* failed before it.
C14_ReturnOnFirstSuccess ==
    /\ pc = "scrape" => (last_attempt # "ok" /\ attempt < retry_count)
    /\ (pc = "scrape" /\ attempt > 0) => last_attempt = "failed"
    /\ last_attempt = "ok" => (Len(sleeps) = attempt /\ ~fetch_failed /\ pc # "scrape")

\* C14 witness: the second attempt succeeded with records, after one sleep
C14_Witness ==
    /\ pc = "scraped" /\ last_attempt = "ok" /\ attempt = 1
    /\ sleeps = <<BackoffBase>> /\ fetched # NoRecords

\* cycles in progress: the job instances the executor runs, and the startup
\* cycle that start() calls before it starts the scheduler
RunningCycles ==
    instances + (IF scheduler = "stopped" /\ mode = "start" /\ pc \in CyclePcs THEN 1 ELSE 0)

\* C15 as stated: at most one cycle is in progress, and no trigger that
\* fires while a cycle runs has its run dropped.
C15_SerialisedNothingDropped == RunningCycles <= 1 /\ ~dropped

\* C15: at most one cycle is in progress, the startup cycle runs while the
\* scheduler has no job instance, and a trigger is skipped only while a job
\* instance is still running.
C15_NoOverlap ==
    /\ RunningCycles <= 1
    /\ scheduler = "stopped" => instances = 0
    /\ instances >= 1 => pc \in CyclePcs
    /\ dropped => (instances >= 1 /\ scheduler # "stopped")

\* C15 witness: a trigger fired while a scheduled cycle was processing its
\* records, and was skipped
C15_Witness == dropped /\ instances = 1 /\ pc = "decide" /\ scheduler = "running"

\* C16: no cycle is ended part-way by a shutdown signal.
C16_CycleCompletesBeforeStop == outcome # "interrupted"

\* C17: no call of a cycle function ends by raising.
C17_NoErrorPropagates == outcome # "raised"

\* C18: when a cycle that fetched records has ended, every fetched class of
\* a watched course was decided in it.
C18_EveryWatchedClassProcessed ==
    (CycleEnded /\ fetched # NoRecords)
        => \A k \in DOMAIN fetched :
              course_code_of[k] \in monitored => decision[k] # "NONE"

\* C19 as stated: no tracking row exists for a class whose course is not on
\* the watchlist.
C19_UnwatchedClassHasNoState ==
    \A k \in Classes :
        course_code_of[k] \notin monitored_courses => ~HasRow(notification_tracking, k)

\* C19: processing a fetched class whose course is not on the watchlist
\* dispatches no alert and takes no decision; it writes the row
\* (seats text, notification_sent = 0 if sold out else 1, last_notified_at
\* NULL) for the class.
C19_UnwatchedClassStatusOnly ==
    [][\A k \in Classes :
          (cur = k /\ pc = "decide" /\ course_code_of[k] \notin monitored)
              => /\ pc' \notin {"send", "mark", "update", "except", "fatal"}
                 /\ decision'[k] = "NONE"
                 /\ dispatchRun'[k] = dispatchRun[k]
                 /\ pc' = "loop" =>
                       RowsOf(k)' =
                          {[class_code |-> k,
                            last_notified_at |-> NULL,
                            last_seats_status |-> fetched[k],
                            notification_sent |-> IF fetched[k] = SoldOut THEN 0 ELSE 1]}]_vars

\* C19 witness: a class with seats of an unwatched course was processed and
\* its row says notification_sent = 1, with no alert dispatched
C19_Witness ==
    \E k \in Classes :
        /\ k \in DOMAIN fetched /\ course_code_of[k] \notin monitored
        /\ before[k] = "ABSENT" /\ cur # k /\ pc = "loop"
        /\ StoredHasSeatsSent(k) /\ dispatchRun[k] = 0

\* C20: a class is decided NOTIFY only when its observed seat count exceeds
\* the notify_when_seats_gt of its course.
C20_NotifyOnlyAboveThreshold ==
    \A k \in Classes :
        decision[k] = "NOTIFY"
            => available_seats_of(seats_status_of(fetched, k))
                   > notify_when_seats_gt[course_code_of[k]]

\* C21: the has_seats of a parsed row is true exactly when the text of its
\* seats cell is not empty and is not the sold-out marker.
C21_HasSeatsNormalised ==
    parsed_row.parsed
        => (parsed_row.has_seats
               <=> (parsed_row.seats_available_text # << >>
                    /\ parsed_row.seats_available_text # SoldOutCell))

\* the text is a non-empty string of digits
AllDigits(text) == text # << >> /\ \A i \in 1..Len(text) : isdigit(text[i])

\* the number a string of digits denotes in base ten, summed digit by digit
\* from position i on
RECURSIVE DecimalSum(_, _)
DecimalSum(ds, i) ==
    IF i > Len(ds) THEN 0
    ELSE digit_value(ds[i]) * 10^(Len(ds) - i) + DecimalSum(ds, i + 1)

\* C22 as stated: available_seats is the number the whole text denotes when
\* the text is a string of digits, otherwise 1 with seats and 0 without;
\* never negative.
C22_SeatCountWholeText ==
    parsed_row.parsed
        => LET text == parsed_row.seats_available_text
               n == parsed_row.available_seats
           IN  /\ n >= 0
               /\ AllDigits(text) => n = DecimalSum(text, 1)
               /\ ~AllDigits(text) => n = (IF parsed_row.has_seats THEN 1 ELSE 0)

\* C22: available_seats is 0 without seats; with seats it is the number
\* denoted by the digits of the text in their order, the other characters
\* left out, and 1 when the text has no digit; never negative.
C22_SeatCountFromDigits ==
    parsed_row.parsed
        => LET text == parsed_row.seats_available_text
               n == parsed_row.available_seats
               ds == SelectSeq(text, isdigit)
           IN  /\ n >= 0
               /\ ~parsed_row.has_seats => n = 0
               /\ (parsed_row.has_seats /\ ds = << >>) => n = 1
               /\ (parsed_row.has_seats /\ ds # << >>) => n = DecimalSum(ds, 1)
               /\ AllDigits(text) => n = DecimalSum(text, 1)

\* C22 witness: the cell "3/0" was parsed as 30 seats
C22_Witness ==
    /\ parsed_row.parsed
    /\ parsed_row.seats_available_text = <<"3", "/", "0">>
    /\ parsed_row.available_seats = 30

\* class k was decided in the current cycle and its processing is over
Processed(k) == decision[k] # "NONE" /\ cur # k

C24_RowFromFirstObservation ==
    CycleEnded
        => \A k \in DOMAIN fetched :
              course_code_of[k] \in monitored => HasRow(notification_tracking, k)

\* C26: a row that says notification_sent = 1 belongs to a class for which
\* a seat alert was at least dispatched since the class was last fetched
\* sold out.
C26_SentOnlyAfterAlert ==
    \A k \in Classes :
        (StoredHasSeatsSent(k) /\ ~ObservedFull(k)) => dispatchRun[k] >= 1

\* C30: a cycle that begins while no course is monitored ends in the same
\* step: no scrape attempt, nothing written to any table, no seat alert
\* dispatched and no error notification sent.
C30_EmptyWatchlistShortCircuit ==
    [][(now' = now + 1 /\ monitored_courses = {})
          => /\ pc' \in {"idle", "down"}
             /\ outcome' = "returned"
             /\ last_attempt' = "none" /\ attempt' = 0 /\ fetched' = NoRecords
             /\ tables' = tables
             /\ dispatchRun' = dispatchRun
             /\ ~op_alert']_vars

\* C30 witness: a scheduled cycle found the watchlist empty and returned
C30_Witness ==
    /\ monitored_courses = {} /\ now = 2 /\ pc = "idle" /\ outcome = "returned"
    /\ scheduler = "running" /\ instances = 0
    /\ notification_tracking = {} /\ courses_tbl = {}

\* ------------------------------------------------------------------ C25
\* C25: after any sequence of mark_notification_sent and
\* update_notification_status writes, notification_tracking holds at most one
\* row per class_code.
C25_OneRowPerClass ==
    \A k \in Classes : Cardinality(RowsOf(k)) <= 1

\* both writers have written the row of k1, the later one with another status
\* and another timestamp, and the table still holds one row for it
C25_Witness ==
    /\ pc = "init"
    /\ notification_tracking =
          {[class_code |-> "k1", last_notified_at |-> 2, last_seats_status |-> "5",
            notification_sent |-> 1],
           [class_code |-> "k2", last_notified_at |-> NULL, last_seats_status |-> SoldOut,
            notification_sent |-> 0]}

\* ------------------------------------------------------------------ C27
\* C27: in every row of notification_tracking, notification_sent is 1 if and
\* only if last_seats_status is not "Hết chỗ"; a sold-out row with the flag
\* set and a row with seats and the flag clear are never stored.
C27_SentIffNotSoldOut ==
    \A r \in notification_tracking :
        (r.notification_sent = 1) <=> (r.last_seats_status # SoldOut)

\* mark_notification_sent has stored a sold-out row (flag clear) and
\* update_notification_status a row with seats (flag set)
C27_Witness ==
    /\ pc = "init"
    /\ \E r \in notification_tracking :
          /\ r.last_notified_at # NULL
          /\ r.last_seats_status = SoldOut
          /\ r.notification_sent = 0
    /\ \E r \in notification_tracking :
          /\ r.last_notified_at = NULL
          /\ r.last_seats_status # SoldOut
          /\ r.notification_sent = 1
\* ------------------------------------------------------------------ C28
\* the most sleeps a call with retry_count = n makes: one between two
\* attempts, none after the last
MostSleeps(n) == IF n = 0 THEN 0 ELSE n - 1

\* C28: scrape_courses(retry_count=n) makes at most n attempts and at most
\* n-1 sleeps (none when n = 0, none after the final failed attempt), always
\* returns, and returns an empty list when every attempt failed or n is 0.
C28_RetryTerminates ==
    /\ [](/\ retrier.calls <= retrier.n
          /\ Len(retrier.sleeps) <= MostSleeps(retrier.n)
          /\ (retrier.state = "returned" /\ retrier.failures = retrier.calls)
                => retrier.result = "empty")
    /\ (retrier.state = "loop") ~> (retrier.state = "returned")

\* a call with retry_count = 3 failed three times, slept twice and returned []
C28_Witness ==
    /\ retrier.state = "returned"
    /\ retrier.n = retry_count
    /\ retrier.calls = retry_count
    /\ retrier.failures = retry_count
    /\ retrier.sleeps = <<wait_time(0), wait_time(1)>>
    /\ retrier.result = "empty"
\* ------------------------------------------------------------------ C29
\* C29: from the same watchlist, stored tracking table and non-empty scrape
\* result, check_once and check_and_notify dispatch the same seat alerts and
\* leave the same tracking table.
C29_EntryPointsAgree ==
    (entry_runs.ran /\ entry_runs.courses # << >>) =>
        /\ entry_runs.once.alerts = entry_runs.start.alerts
        /\ entry_runs.once.tracking = entry_runs.start.tracking

\* with CS 403 watched, the list holds unwatched k2 and then k1 with seats:
\* both runs store k2's row and dispatch the alert for k1, whose TypeError
\* check_once raises and check_and_notify catches
C29_Witness ==
    /\ entry_runs.ran
    /\ monitored_courses = {"CS 403"}
    /\ entry_runs.stored = {}
    /\ entry_runs.courses = <<<<"k2", "3">>, <<"k1", "3">>>>
    /\ entry_runs.once.alerts = <<<<"k1", "TypeError">>>>
    /\ entry_runs.once.tracking = update_notification_status({}, "k2", "3")
    /\ entry_runs.once.outcome = "raised"
    /\ entry_runs.start.outcome = "returned"
====
